---- MODULE Spec2Model ----
(***************************************************************************)
(* Model of the supervisory core of esp32-poolmon: the circulation-pump    *)
(* (CP) and pool-pump (PP) control loops of main/control.c, and the page   *)
(* loop and output wrappers of main/display.c.                             *)
(*                                                                         *)
(* Time is the FreeRTOS tick counter.  TickType_t is 32 bits wide in the   *)
(* program; the model keeps the modular arithmetic but scales the width    *)
(* down to TickBits bits, and the tick rate down to configTICK_RATE_HZ     *)
(* ticks per second, so that a wraparound is reached within the bounds.    *)
(* The store (datastore) is an external collaborator: every datastore_get  *)
(* returns a value its writers chose, so each read is an input of the tick *)
(* that makes it, drawn independently of the other reads of the tick (the  *)
(* store gives no snapshot across keys).  The values read are kept in the  *)
(* task's locals.  Floating-point resources take small integer values, on  *)
(* which the program's float subtraction and comparisons are exact.        *)
(***************************************************************************)
EXTENDS Integers, Sequences, FiniteSets, TLC

(* ------------------------------ bounds --------------------------------- *)
TickBits == 5            \* width of the scaled tick counter
CountBits == 2           \* width of the scaled uint32_t cycle counter n
MaxLatency == 1          \* ticks between a task's wake time and its running
MaxTemp == 2             \* temperatures range over 0..MaxTemp
MaxDelta == 2            \* on-delta / off-delta range over 0..MaxDelta
MaxFlow == 1             \* flow rate and threshold range over 0..MaxFlow
MaxCycleCount == 2       \* configured cycle count ranges over 0..MaxCycleCount
MaxDuration == 2         \* on / pause durations range over 0..MaxDuration (s)
PageMargin == 2          \* page arguments run from -PageMargin to LAST - 1 + PageMargin
MaxText == 2             \* a page handler writes 1..MaxText characters in a row
MaxSuccesses == 2        \* attempts of one wrapper call that the hardware accepts
MaxQueue == 1            \* capacity of the input queue (10 in display_init)
MaxUptime == 2           \* seconds since boot run over 0..MaxUptime
MaxTimeout == 1          \* backlight timeout ranges over 0..MaxTimeout (s)
MaxCalls == 2            \* calls of display_init, and of display_delete
MaxPending == 3          \* capacity of the input queue where events pile up

(* ------------------------- program constants --------------------------- *)
configTICK_RATE_HZ == 2  \* ticks per second (scaled)
POLL_PERIOD == 1000      \* control loop period in milliseconds
SETTLE_MS == 10000       \* 10 * 1000: settling delay in milliseconds

\* display_page_id_t: a page's identifier is its position in page_specs
DISPLAY_PAGE_IGNORE == -1
DISPLAY_PAGE_BLANK == 0
DISPLAY_PAGE_MAIN == 1
DISPLAY_PAGE_SENSORS_TEMP == 2
DISPLAY_PAGE_SENSORS_TEMP_2 == 3
DISPLAY_PAGE_SENSORS_LIGHT == 4
DISPLAY_PAGE_SENSORS_FLOW == 5
DISPLAY_PAGE_POWER == 6
DISPLAY_PAGE_SWITCHES == 7
DISPLAY_PAGE_PUMP_STATUS == 8
DISPLAY_PAGE_CP_CONTROL == 9
DISPLAY_PAGE_PP_CONTROL == 10
DISPLAY_PAGE_ALARM == 11
DISPLAY_PAGE_WIFI_STATUS == 12
DISPLAY_PAGE_MQTT_STATUS == 13
DISPLAY_PAGE_RESOURCE_STATUS == 14
DISPLAY_PAGE_AVR_STATUS == 15
DISPLAY_PAGE_LAST == 16

INITIAL_PAGE == DISPLAY_PAGE_MAIN

RECURSIVE Pow2(_)
Pow2(k) == IF k = 0 THEN 1 ELSE 2 * Pow2(k - 1)

TickMod == Pow2(TickBits)       \* TickType_t arithmetic is modulo TickMod
CountMod == Pow2(CountBits)     \* uint32_t arithmetic is modulo CountMod

portTICK_PERIOD_MS == 1000 \div configTICK_RATE_HZ
PeriodTicks == POLL_PERIOD \div portTICK_PERIOD_MS
\* variant: the settling delay is one poll period
SettleTicksShort == POLL_PERIOD \div portTICK_PERIOD_MS

SettleTicks == SETTLE_MS \div portTICK_PERIOD_MS

AVR_PUMP_STATE_OFF == "OFF"
AVR_PUMP_STATE_ON == "ON"
STATE_PP_OFF == "PP_OFF"
STATE_PP_ON == "PP_ON"
STATE_PP_PAUSE == "PP_PAUSE"

VARIABLES
    now,                 \* xTaskGetTickCount()
    cp_pc,               \* position of control_cp_task
    cp_state,            \* control_cp_task: state
    cp_last_wake_time,   \* control_cp_task: last_wake_time
    cp_in,               \* control_cp_task: t1, t2, delta of the last iteration
    cp_pump,             \* value last passed to avr_support_set_cp_pump
    cp_calls,            \* avr_support_set_cp_pump calls of the task's last step
    cp_run,              \* history: the current run of ticks with equal readings
    pp_pc,               \* position of control_pp_task
    pp_state,            \* control_pp_task: state
    pp_last_wake_time,   \* control_pp_task: last_wake_time
    cycle_start_time,    \* control_pp_task: cycle_start_time
    n,                   \* control_pp_task: n (remaining cycles)
    pp_in,               \* control_pp_task: the store at the last iteration
    pp_pump,             \* value last passed to avr_support_set_pp_pump
    pp_calls,            \* avr_support_set_pp_pump calls of the task's last step
    pp_hist              \* history: phases of the PP sequence in progress

VARIABLES
    lcd_call,            \* a call of an output wrapper on its own, with its result
    lookup,              \* a page lookup on its own, with its result
    dispatched,          \* a dispatch on its own, with the frame it gives
    d_pc,                \* where display_task stands
    current_page,        \* display_task: current_page
    frame,               \* the primitives of the frame being written
    d_ops,               \* what the input handling of the cycle commanded
    d_input,             \* display_task: input, the event taken in the cycle
    d_timeout,           \* display_task: backlight_timeout as read in the cycle
    queue,               \* input_queue
    i2c_lock,            \* who holds the lock of the i2c master
    backlight,           \* the backlight as last commanded
    backlight_timestamp, \* display_task: backlight_timestamp
    uptime,              \* seconds_since_boot()
    display_page,        \* the store's RESOURCE_ID_DISPLAY_PAGE
    dump_running         \* a dump_datastore_task exists

VARIABLES
    init,                \* display_init: static bool init
    task_handle,         \* _task_handle
    life                 \* history: the calls made and what they created

cp_vars == <<cp_pc, cp_state, cp_last_wake_time, cp_in, cp_pump, cp_calls,
             cp_run>>
pp_vars == <<pp_pc, pp_state, pp_last_wake_time, cycle_start_time, n, pp_in,
             pp_pump, pp_calls, pp_hist>>
engine_vars == <<d_pc, current_page, frame, d_ops, d_input, d_timeout, queue,
                 i2c_lock, backlight,
                 backlight_timestamp, uptime, display_page, dump_running>>
pure_vars == <<lcd_call, lookup, dispatched>>
life_vars == <<init, task_handle, life>>
disp_vars == <<pure_vars, engine_vars, life_vars>>
vars == <<now, cp_vars, pp_vars, disp_vars>>

(* ----------------------------- the store ------------------------------- *)
\* the values a datastore_get of each resource can return
TempValues == 0..MaxTemp
DeltaValues == 0..MaxDelta
FlowValues == 0..MaxFlow
PumpStates == {AVR_PUMP_STATE_OFF, AVR_PUMP_STATE_ON}
CycleCountValues == 0..MaxCycleCount
DurationValues == 0..MaxDuration

(* --------------------------- task scheduling --------------------------- *)
TickAdd(a, b) == (a + b) % TickMod
TickSub(a, b) == (a + TickMod - b) % TickMod

\* vTaskDelay(10 * 1000 / portTICK_RATE_MS) from the task's start, then
\* vTaskDelayUntil(&last_wake_time, POLL_PERIOD / portTICK_PERIOD_MS)
WakeTime(pc, last_wake_time) ==
    IF pc = "settle" THEN TickAdd(last_wake_time, SettleTicks)
    ELSE TickAdd(last_wake_time, PeriodTicks)

\* the task is woken at its wake time and runs at most MaxLatency ticks later
Due(pc, last_wake_time) ==
    /\ pc \in {"settle", "delay"}
    /\ TickSub(now, WakeTime(pc, last_wake_time)) <= MaxLatency

Overdue(pc, last_wake_time) ==
    /\ pc \in {"settle", "delay"}
    /\ TickSub(now, WakeTime(pc, last_wake_time)) = MaxLatency

(* ------------------------------- Init ---------------------------------- *)
Unread == -1     \* in cp_run: no read of this threshold in the run so far
CpNoInputs == [t1 |-> 0, t2 |-> 0, delta |-> 0]
PpNoInputs == [flow_rate |-> 0, cp_state |-> AVR_PUMP_STATE_OFF,
               flow_threshold |-> 0, duration |-> 0, cycle_count |-> 0]
CpNoRun == [t1 |-> 0, t2 |-> 0, on |-> Unread, off |-> Unread, flips |-> 0]
PpNoHistory == [N |-> 0, on |-> 0, pause |-> 0]
\* no primitive of a frame written yet
NoFrame == [prims |-> 0, all_failed |-> TRUE, max_attempts |-> 0]
\* the value of an int32 resource that was never set
DATASTORE_DEFAULT == 0
\* button_event_t input = 0: no event taken
NoInput == "none"
NoDispatch == [page |-> DISPLAY_PAGE_IGNORE, fault |-> "none", text |-> 0,
               called |-> FALSE, rows |-> <<>>]
NoLookup == [page |-> DISPLAY_PAGE_IGNORE, input |-> "none",
             new_page |-> DISPLAY_PAGE_IGNORE, next |-> DISPLAY_PAGE_IGNORE]
NoCall == [prim |-> "none", hw |-> <<>>, accepted |-> 0, err |-> "none",
           attempts |-> 0, resets |-> 0, trace |-> <<>>]

\* no call of display_init or display_delete was made
NoLife == [inits |-> 0, deletes |-> 0, queues |-> 0, tasks |-> 0,
           task_deletes |-> 0, stale_deletes |-> 0]

\* one call of display_init was made and created the queue and the task
FirstLife == [inits |-> 1, deletes |-> 0, queues |-> 1, tasks |-> 1,
              task_deletes |-> 0, stale_deletes |-> 0]

\* a pointer or a handle that is NULL
NULL == -1

\* the handle xTaskCreate gives for display_task
DISPLAY_TASK == 1

\* the tasks and the display but for what display_init creates
InitState ==
    /\ now = 0
    /\ cp_pc = "init"
    /\ cp_state = AVR_PUMP_STATE_OFF
    /\ cp_last_wake_time = 0
    /\ cp_in = CpNoInputs
    /\ cp_pump = "NONE"
    /\ cp_calls = <<>>
    /\ cp_run = CpNoRun
    /\ pp_pc = "init"
    /\ pp_state = STATE_PP_OFF
    /\ pp_last_wake_time = 0
    /\ cycle_start_time = 0
    /\ n = 0
    /\ pp_in = PpNoInputs
    /\ pp_pump = "NONE"
    /\ pp_calls = <<>>
    /\ pp_hist = PpNoHistory
    /\ lcd_call = NoCall
    /\ lookup = NoLookup
    /\ dispatched = NoDispatch
    /\ current_page = INITIAL_PAGE
    /\ frame = NoFrame
    /\ d_ops = <<>>
    /\ d_input = NoInput
    /\ d_timeout = Unread
    /\ queue = <<>>
    /\ i2c_lock = "free"
    /\ backlight = FALSE
    /\ backlight_timestamp = 0
    /\ uptime = 0
    /\ display_page = DATASTORE_DEFAULT
    /\ dump_running = FALSE

\* the firmware after app_main called display_init, the task created
Init ==
    /\ InitState
    /\ d_pc = "setup"
    /\ init = TRUE
    /\ task_handle = DISPLAY_TASK
    /\ life = FirstLife

\* the firmware before the first call of display_init
InitBoot ==
    /\ InitState
    /\ d_pc = "none"
    /\ init = FALSE
    /\ task_handle = NULL
    /\ life = NoLife

(* ------------------------- the tick counter ---------------------------- *)
\* one tick interrupt; a task that was woken MaxLatency ticks ago runs first
AdvanceTime ==
    /\ ~Overdue(cp_pc, cp_last_wake_time)
    /\ ~Overdue(pp_pc, pp_last_wake_time)
    /\ now' = TickAdd(now, 1)
    /\ UNCHANGED <<cp_vars, pp_vars, disp_vars>>

(* --------------------------- control_cp_task --------------------------- *)
CpStartCommand == AVR_PUMP_STATE_OFF

\* the task's first run: everything before the loop
CpStart ==
    /\ cp_pc = "init"
    /\ cp_last_wake_time' = now
    /\ cp_state' = AVR_PUMP_STATE_OFF
    /\ cp_calls' = <<CpStartCommand>>
    /\ cp_pump' = CpStartCommand
    /\ cp_pc' = "settle"
    /\ UNCHANGED <<now, cp_in, cp_run, pp_vars, disp_vars>>

\* variant: strict comparison
CpOnCondStrict(t1, t2, delta) == t1 - t2 > delta

CpOnCond(t1, t2, delta) == t1 - t2 >= delta

\* variant: strict comparison
CpOffCondStrict(t1, t2, delta) == t1 - t2 < delta

\* variant: the comparison of the OFF branch
CpOffCondAsOn(t1, t2, delta) == t1 - t2 >= delta

CpOffCond(t1, t2, delta) == t1 - t2 <= delta

\* the "transitions" part of one loop iteration; delta is the on-delta read
\* in state OFF and the off-delta read in state ON
CpTransition(state, t1, t2, delta) ==
    IF state = AVR_PUMP_STATE_OFF
    THEN IF CpOnCond(t1, t2, delta)
         THEN [state |-> AVR_PUMP_STATE_ON, transition |-> TRUE]
         ELSE [state |-> state, transition |-> FALSE]
    ELSE IF CpOffCond(t1, t2, delta)
         THEN [state |-> AVR_PUMP_STATE_OFF, transition |-> TRUE]
         ELSE [state |-> state, transition |-> FALSE]

\* variant: the output is written on every iteration
CpOutputAlways(transition, state) == <<state>>

\* the "output" part of one loop iteration: the actuation calls it makes
CpOutput(transition, state) == IF transition THEN <<state>> ELSE <<>>

\* history: a run is a maximal sequence of ticks whose reads of the two
\* temperatures, of on-delta and of off-delta each return one same value;
\* flips counts the state changes of the run, up to 2
CpRun(run, state, t1, t2, delta, transition) ==
    LET key == IF state = AVR_PUMP_STATE_OFF THEN "on" ELSE "off"
        same == run.t1 = t1 /\ run.t2 = t2 /\ run[key] \in {Unread, delta}
        base == IF same THEN run
                ELSE [t1 |-> t1, t2 |-> t2, on |-> Unread,
                      off |-> Unread, flips |-> 0]
        flips == IF transition /\ base.flips < 2
                 THEN base.flips + 1 ELSE base.flips
    IN [base EXCEPT ![key] = delta, !.flips = flips]

\* one iteration of the loop, run when the delay of the previous one ends,
\* reading T1s, T2s and Ds from the store
CpTickOn(T1s, T2s, Ds) ==
    /\ Due(cp_pc, cp_last_wake_time)
    /\ cp_last_wake_time' = now
    /\ \E t1 \in T1s, t2 \in T2s, delta \in Ds :
        LET r == CpTransition(cp_state, t1, t2, delta)
            out == CpOutput(r.transition, r.state)
        IN /\ cp_in' = [t1 |-> t1, t2 |-> t2, delta |-> delta]
           /\ cp_state' = r.state
           /\ cp_calls' = out
           /\ cp_pump' = IF out = <<>> THEN cp_pump ELSE out[Len(out)]
           /\ cp_run' = CpRun(cp_run, cp_state, t1, t2, delta, r.transition)
    /\ cp_pc' = "delay"
    /\ UNCHANGED <<now, pp_vars, disp_vars>>

CpTick == CpTickOn(TempValues, TempValues, DeltaValues)

NextCP == CpStart \/ CpTick \/ AdvanceTime

SpecCP == Init /\ [][NextCP]_vars

(* --------------------------- control_pp_task --------------------------- *)
PpStartCommand == AVR_PUMP_STATE_OFF

\* the task's first run: everything before the loop
PpStart ==
    /\ pp_pc = "init"
    /\ pp_last_wake_time' = now
    /\ pp_calls' = <<PpStartCommand>>
    /\ pp_pump' = PpStartCommand
    /\ pp_state' = STATE_PP_OFF
    /\ cycle_start_time' = 0
    /\ n' = 0
    /\ pp_pc' = "settle"
    /\ UNCHANGED <<now, pp_in, pp_hist, cp_vars, disp_vars>>

\* --n on a uint32_t
Decrement(x) == (x + CountMod - 1) % CountMod

\* (TickType_t)(duration * configTICK_RATE_HZ)
DurationTicks(duration) == (duration * configTICK_RATE_HZ) % TickMod

\* cycle_start_time + (TickType_t)(duration * configTICK_RATE_HZ)
CycleEndTime(start, duration) == TickAdd(start, DurationTicks(duration))

\* last_wake_time >= cycle_end_time
CycleEnded(last_wake_time, cycle_end_time) == last_wake_time >= cycle_end_time

PpOnCond(cp, flow_rate, flow_threshold) ==
    (cp = AVR_PUMP_STATE_ON) /\ (flow_rate <= flow_threshold)

\* variant: the pump is commanded on every iteration
PpOutputAlways(s, t) ==
    IF t = STATE_PP_ON THEN <<AVR_PUMP_STATE_ON>> ELSE <<AVR_PUMP_STATE_OFF>>

\* variant: the pump is only ever switched on
PpOutputOnOnly(s, t) ==
    IF s # t /\ t = STATE_PP_ON THEN <<AVR_PUMP_STATE_ON>> ELSE <<>>

\* the actuation calls of an iteration that takes state s to state t
PpOutput(s, t) ==
    IF s = t THEN <<>>
    ELSE IF t = STATE_PP_ON THEN <<AVR_PUMP_STATE_ON>>
    ELSE <<AVR_PUMP_STATE_OFF>>

\* case STATE_PP_OFF
PpCaseOff(last_wake_time, flow_rate, cp, flow_threshold, count) ==
    IF PpOnCond(cp, flow_rate, flow_threshold)
    THEN [state |-> STATE_PP_ON, start |-> last_wake_time,
          n |-> Decrement(count % CountMod)]
    ELSE [state |-> STATE_PP_OFF, start |-> cycle_start_time, n |-> n]

\* variant: the cycle count is read again at the end of each ON phase
PpCaseOnReload(last_wake_time, duration) ==
    IF CycleEnded(last_wake_time, CycleEndTime(cycle_start_time, duration))
    THEN [state |-> STATE_PP_PAUSE, start |-> last_wake_time,
          n |-> pp_in'.cycle_count % CountMod]
    ELSE [state |-> STATE_PP_ON, start |-> cycle_start_time, n |-> n]

\* case STATE_PP_ON
PpCaseOn(last_wake_time, duration) ==
    IF CycleEnded(last_wake_time, CycleEndTime(cycle_start_time, duration))
    THEN [state |-> STATE_PP_PAUSE, start |-> last_wake_time, n |-> n]
    ELSE [state |-> STATE_PP_ON, start |-> cycle_start_time, n |-> n]

\* variant: a cycle resumes only while the store's CP state is ON
PpCasePauseCpGated(last_wake_time, duration) ==
    IF /\ CycleEnded(last_wake_time, CycleEndTime(cycle_start_time, duration))
       /\ (n = 0 \/ pp_in'.cp_state = AVR_PUMP_STATE_ON)
    THEN IF n > 0
         THEN [state |-> STATE_PP_ON, start |-> last_wake_time,
               n |-> Decrement(n)]
         ELSE [state |-> STATE_PP_OFF, start |-> cycle_start_time, n |-> n]
    ELSE [state |-> STATE_PP_PAUSE, start |-> cycle_start_time, n |-> n]

\* case STATE_PP_PAUSE
PpCasePause(last_wake_time, duration) ==
    IF CycleEnded(last_wake_time, CycleEndTime(cycle_start_time, duration))
    THEN IF n > 0
         THEN [state |-> STATE_PP_ON, start |-> last_wake_time,
               n |-> Decrement(n)]
         ELSE [state |-> STATE_PP_OFF, start |-> cycle_start_time, n |-> n]
    ELSE [state |-> STATE_PP_PAUSE, start |-> cycle_start_time, n |-> n]

\* history of the sequence in progress: the cycle count read at OFF->ON and
\* the ON and PAUSE phases entered since; kept until the next OFF->ON
PpHistory(hist, s, t, count) ==
    IF s = t THEN hist
    ELSE IF s = STATE_PP_OFF THEN [N |-> count, on |-> 1, pause |-> 0]
    ELSE IF t = STATE_PP_ON THEN [hist EXCEPT !.on = @ + 1]
    ELSE IF t = STATE_PP_PAUSE THEN [hist EXCEPT !.pause = @ + 1]
    ELSE hist

\* one iteration of the loop, run when the delay of the previous one ends.
\* In state OFF it reads a flow rate of Fs, a CP state of Cs and a threshold
\* of Ts, and a cycle count of Ns if it switches on; in states ON and PAUSE it
\* reads a duration of Us, while the store holds a flow rate of F0, a CP state
\* of C0 and a cycle count of N0, none of which it reads
PpTickStore(Fs, Cs, Ts, Ns, Us, F0, C0, N0) ==
    /\ Due(pp_pc, pp_last_wake_time)
    /\ pp_last_wake_time' = now
    /\ \E in \in
          CASE pp_state = STATE_PP_OFF ->
                 {r \in [flow_rate : Fs, cp_state : Cs, flow_threshold : Ts,
                         duration : {0}, cycle_count : Ns \cup {0}] :
                    r.cycle_count \in
                        IF PpOnCond(r.cp_state, r.flow_rate, r.flow_threshold)
                        THEN Ns ELSE {0}}
            [] OTHER ->
                 [flow_rate : F0, cp_state : C0, flow_threshold : {0},
                  duration : Us, cycle_count : N0] :
        LET r == CASE pp_state = STATE_PP_OFF ->
                        PpCaseOff(now, in.flow_rate, in.cp_state,
                                  in.flow_threshold, in.cycle_count)
                   [] pp_state = STATE_PP_ON -> PpCaseOn(now, in.duration)
                   [] pp_state = STATE_PP_PAUSE ->
                        PpCasePause(now, in.duration)
            out == PpOutput(pp_state, r.state)
        IN /\ pp_in' = in
           /\ pp_state' = r.state
           /\ cycle_start_time' = r.start
           /\ n' = r.n
           /\ pp_calls' = out
           /\ pp_pump' = IF out = <<>> THEN pp_pump ELSE out[Len(out)]
           /\ pp_hist' = PpHistory(pp_hist, pp_state, r.state, in.cycle_count)
    /\ pp_pc' = "delay"
    /\ UNCHANGED <<now, cp_vars, disp_vars>>

\* an iteration, the resources it does not read left out of the store
PpTickOn(Fs, Cs, Ts, Ns, Us) ==
    PpTickStore(Fs, Cs, Ts, Ns, Us, {0}, {AVR_PUMP_STATE_OFF}, {0})

PpTick == PpTickOn(FlowValues, PumpStates, FlowValues, CycleCountValues,
                   DurationValues)

NextPP == PpStart \/ PpTick \/ AdvanceTime

SpecPP == Init /\ [][NextPP]_vars

\* the PP loop, the store changing under it in every state: the flow rate,
\* the CP state and the cycle count take any value at every iteration
PpTickAnyStore ==
    PpTickStore({0}, {AVR_PUMP_STATE_ON}, {0}, 1..MaxCycleCount, {1},
                FlowValues, PumpStates, CycleCountValues)

NextPPStore == PpStart \/ PpTickAnyStore \/ AdvanceTime

SpecPPStore == Init /\ [][NextPPStore]_vars

\* both control loops, the store holding one fixed content
CpTickFixed == CpTickOn({MaxTemp}, {0}, {1})

PpTickFixed == PpTickOn({0}, {AVR_PUMP_STATE_ON}, {0}, {1}, {1})

NextStart == CpStart \/ CpTickFixed \/ PpStart \/ PpTickFixed \/ AdvanceTime

SpecStart == Init /\ [][NextStart]_vars

\* both control loops, the first temperature changing between two values
CpTickTwo == CpTickOn({0, MaxTemp}, {0}, {1})

NextControl == CpStart \/ CpTickTwo \/ PpStart \/ PpTickFixed \/ AdvanceTime

SpecControl == Init /\ [][NextControl]_vars

(* ------------------------- the output wrappers ------------------------- *)
ESP_OK == "ESP_OK"
ESP_FAIL == "ESP_FAIL"

\* the three wrapped primitives: _clear, _move_cursor, _write_string
Primitives == {"clear", "move_cursor", "write_string"}

\* variant: one more pass through the retry loop
RetryAllowedInclusive(count) == count <= 10

\* count < 10, the first conjunct of the loop condition of each wrapper
RetryAllowed(count) == count < 10

\* what the hardware answers to the successive attempts of one call: TRUE
\* where the attempt succeeds; one answer more than the wrapper may ask for
HwAnswers ==
    {hw \in [1..11 -> BOOLEAN] :
        Cardinality({i \in 1..11 : hw[i]}) <= MaxSuccesses}

\* _display_reset is i2c_lcd1602_reset followed by i2c_lcd1602_define_char
\* for each of the four custom characters
RESET_STEPS == 5

\* how many steps of a _display_reset the hardware accepts before it fails
\* one: some or all of them
ResetAnswers == {3, RESET_STEPS}

\* _display_reset, the hardware accepting accepted steps: each step is made
\* only if the one before it returned ESP_OK
RECURSIVE ResetSteps(_, _, _)
ResetSteps(step, err, accepted) ==
    IF step > RESET_STEPS \/ err # ESP_OK
    THEN [err |-> err, done |-> step - 1]
    ELSE ResetSteps(step + 1,
                    IF step <= accepted THEN ESP_OK ELSE ESP_FAIL, accepted)

DisplayReset(accepted) ==
    LET r == ResetSteps(1, ESP_OK, accepted)
    IN IF r.err = ESP_OK THEN "reset_full" ELSE "reset_partial"

\* variant: a failed attempt is followed by the delay alone
AfterFailureNoReset(accepted) == <<"delay">>

\* what follows a failed attempt in the loop of a wrapper: vTaskDelay and
\* _display_reset, whose result is dropped
AfterFailure(accepted) == <<"delay", DisplayReset(accepted)>>

\* the loop of a wrapper, the hardware answering hw to the attempts and
\* accepting accepted steps of each reset: the value returned, the counter,
\* the attempts made and the trace of the attempts, delays and resets
RECURSIVE RetryLoop(_, _, _, _, _)
RetryLoop(count, err, trace, hw, accepted) ==
    IF RetryAllowed(count)
    THEN IF hw[count + 1]
         THEN [err |-> ESP_OK, attempts |-> count + 1, resets |-> count,
               trace |-> Append(trace, "ok")]
         ELSE RetryLoop(count + 1, ESP_FAIL,
                        Append(trace, "fail") \o AfterFailure(accepted),
                        hw, accepted)
    ELSE [err |-> err, attempts |-> count, resets |-> count, trace |-> trace]

\* _clear / _move_cursor / _write_string: the value returned, the hardware
\* operations attempted, the passes through the loop body and the trace
Wrapper(hw, accepted) == RetryLoop(0, ESP_FAIL, <<>>, hw, accepted)

\* one call of a wrapper
WrapperCall ==
    \E prim \in Primitives, hw \in HwAnswers, accepted \in ResetAnswers :
        LET r == Wrapper(hw, accepted)
        IN /\ lcd_call' = [prim |-> prim, hw |-> hw, accepted |-> accepted,
                           err |-> r.err, attempts |-> r.attempts,
                           resets |-> r.resets, trace |-> r.trace]
           /\ UNCHANGED <<now, cp_vars, pp_vars, lookup, dispatched,
                          engine_vars, life_vars>>

NextWrapper == WrapperCall

SpecWrapper == Init /\ [][NextWrapper]_vars

(* ------------------- page registry and transition table ---------------- *)
\* the input kinds of the queue; INPUT_OTHER is any value that is none of the
\* four events
ROTARY_ENCODER_EVENT_CLOCKWISE == "CW"
ROTARY_ENCODER_EVENT_COUNTER_CLOCKWISE == "CCW"
BUTTON_EVENT_SHORT == "SHORT"
BUTTON_EVENT_LONG == "LONG"
INPUT_OTHER == "OTHER"
EventKinds == {ROTARY_ENCODER_EVENT_CLOCKWISE,
               ROTARY_ENCODER_EVENT_COUNTER_CLOCKWISE,
               BUTTON_EVENT_SHORT, BUTTON_EVENT_LONG}
InputKinds == EventKinds \cup {INPUT_OTHER}

\* page_specs[]: the id field of each entry, in the order of the table (the
\* C array is indexed from 0, the sequence from 1)
page_specs ==
    << DISPLAY_PAGE_BLANK, DISPLAY_PAGE_MAIN, DISPLAY_PAGE_SENSORS_TEMP,
       DISPLAY_PAGE_SENSORS_TEMP_2, DISPLAY_PAGE_SENSORS_LIGHT,
       DISPLAY_PAGE_SENSORS_FLOW, DISPLAY_PAGE_POWER, DISPLAY_PAGE_SWITCHES,
       DISPLAY_PAGE_PUMP_STATUS, DISPLAY_PAGE_CP_CONTROL,
       DISPLAY_PAGE_PP_CONTROL, DISPLAY_PAGE_ALARM, DISPLAY_PAGE_WIFI_STATUS,
       DISPLAY_PAGE_MQTT_STATUS, DISPLAY_PAGE_RESOURCE_STATUS,
       DISPLAY_PAGE_AVR_STATUS >>

\* variant: a long press leads to the blank page
TransitionLongToBlank(current, ccw, cw, short, long) ==
    [current |-> current, on_counter_clockwise |-> ccw, on_clockwise |-> cw,
     on_short |-> short, on_long |-> DISPLAY_PAGE_BLANK]

\* variant: a short press is ignored on every page
TransitionShortIgnored(current, ccw, cw, short, long) ==
    [current |-> current, on_counter_clockwise |-> ccw, on_clockwise |-> cw,
     on_short |-> DISPLAY_PAGE_IGNORE, on_long |-> long]

Transition(current, ccw, cw, short, long) ==
    [current |-> current, on_counter_clockwise |-> ccw, on_clockwise |-> cw,
     on_short |-> short, on_long |-> long]

\* transitions[], in the order of the table
transitions ==
    << Transition(DISPLAY_PAGE_BLANK, DISPLAY_PAGE_MAIN, DISPLAY_PAGE_MAIN,
                  DISPLAY_PAGE_IGNORE, DISPLAY_PAGE_IGNORE),
       Transition(DISPLAY_PAGE_MAIN, DISPLAY_PAGE_AVR_STATUS,
                  DISPLAY_PAGE_SENSORS_TEMP, DISPLAY_PAGE_IGNORE,
                  DISPLAY_PAGE_IGNORE),
       Transition(DISPLAY_PAGE_SENSORS_TEMP, DISPLAY_PAGE_MAIN,
                  DISPLAY_PAGE_SENSORS_LIGHT, DISPLAY_PAGE_SENSORS_TEMP_2,
                  DISPLAY_PAGE_IGNORE),
       Transition(DISPLAY_PAGE_SENSORS_TEMP_2, DISPLAY_PAGE_MAIN,
                  DISPLAY_PAGE_SENSORS_LIGHT, DISPLAY_PAGE_SENSORS_TEMP,
                  DISPLAY_PAGE_IGNORE),
       Transition(DISPLAY_PAGE_SENSORS_LIGHT, DISPLAY_PAGE_SENSORS_TEMP,
                  DISPLAY_PAGE_SENSORS_FLOW, DISPLAY_PAGE_IGNORE,
                  DISPLAY_PAGE_IGNORE),
       Transition(DISPLAY_PAGE_SENSORS_FLOW, DISPLAY_PAGE_SENSORS_LIGHT,
                  DISPLAY_PAGE_POWER, DISPLAY_PAGE_IGNORE, DISPLAY_PAGE_IGNORE),
       Transition(DISPLAY_PAGE_POWER, DISPLAY_PAGE_SENSORS_FLOW,
                  DISPLAY_PAGE_SWITCHES, DISPLAY_PAGE_IGNORE,
                  DISPLAY_PAGE_IGNORE),
       Transition(DISPLAY_PAGE_SWITCHES, DISPLAY_PAGE_SENSORS_FLOW,
                  DISPLAY_PAGE_PUMP_STATUS, DISPLAY_PAGE_IGNORE,
                  DISPLAY_PAGE_IGNORE),
       Transition(DISPLAY_PAGE_PUMP_STATUS, DISPLAY_PAGE_SWITCHES,
                  DISPLAY_PAGE_CP_CONTROL, DISPLAY_PAGE_IGNORE,
                  DISPLAY_PAGE_IGNORE),
       Transition(DISPLAY_PAGE_CP_CONTROL, DISPLAY_PAGE_PUMP_STATUS,
                  DISPLAY_PAGE_PP_CONTROL, DISPLAY_PAGE_IGNORE,
                  DISPLAY_PAGE_IGNORE),
       Transition(DISPLAY_PAGE_PP_CONTROL, DISPLAY_PAGE_CP_CONTROL,
                  DISPLAY_PAGE_ALARM, DISPLAY_PAGE_IGNORE, DISPLAY_PAGE_IGNORE),
       Transition(DISPLAY_PAGE_ALARM, DISPLAY_PAGE_PP_CONTROL,
                  DISPLAY_PAGE_WIFI_STATUS, DISPLAY_PAGE_IGNORE,
                  DISPLAY_PAGE_IGNORE),
       Transition(DISPLAY_PAGE_WIFI_STATUS, DISPLAY_PAGE_ALARM,
                  DISPLAY_PAGE_MQTT_STATUS, DISPLAY_PAGE_IGNORE,
                  DISPLAY_PAGE_IGNORE),
       Transition(DISPLAY_PAGE_MQTT_STATUS, DISPLAY_PAGE_WIFI_STATUS,
                  DISPLAY_PAGE_RESOURCE_STATUS, DISPLAY_PAGE_IGNORE,
                  DISPLAY_PAGE_IGNORE),
       Transition(DISPLAY_PAGE_RESOURCE_STATUS, DISPLAY_PAGE_MQTT_STATUS,
                  DISPLAY_PAGE_AVR_STATUS, DISPLAY_PAGE_IGNORE,
                  DISPLAY_PAGE_IGNORE),
       Transition(DISPLAY_PAGE_AVR_STATUS, DISPLAY_PAGE_RESOURCE_STATUS,
                  DISPLAY_PAGE_MAIN, DISPLAY_PAGE_IGNORE, DISPLAY_PAGE_IGNORE) >>

\* page >= 0 && page < DISPLAY_PAGE_LAST
InRange(page) == page >= 0 /\ page < DISPLAY_PAGE_LAST

\* variant: an unknown input kind leads to the blank page
OtherInputToBlank(page) == DISPLAY_PAGE_BLANK

\* the default branch of the switch of _handle_transition
OtherInput(page) == page

\* _handle_transition
HandleTransition(input, page) ==
    IF InRange(page)
    THEN CASE input = ROTARY_ENCODER_EVENT_CLOCKWISE ->
                  transitions[page + 1].on_clockwise
           [] input = ROTARY_ENCODER_EVENT_COUNTER_CLOCKWISE ->
                  transitions[page + 1].on_counter_clockwise
           [] input = BUTTON_EVENT_SHORT ->
                  transitions[page + 1].on_short
           [] input = BUTTON_EVENT_LONG ->
                  transitions[page + 1].on_long
           [] OTHER -> OtherInput(page)
    ELSE DISPLAY_PAGE_BLANK

\* variant: a target is committed without the range check
CommitsUnchecked(new_page, page) == new_page # page

\* the guard of the commit in display_task
Commits(new_page, page) ==
    new_page # page /\ InRange(new_page)

\* current_page after the handling of input on page
NextPage(input, page) ==
    LET new_page == HandleTransition(input, page)
    IN IF Commits(new_page, page) THEN new_page ELSE page

\* current_page after k inputs of the same kind, starting on page
RECURSIVE Rotate(_, _, _)
Rotate(input, page, k) ==
    IF k = 0 THEN page ELSE Rotate(input, NextPage(input, page), k - 1)

\* the pages that inputs of the four kinds lead to from the pages of S
RECURSIVE ReachableFrom(_)
ReachableFrom(S) ==
    LET T == S \cup {NextPage(input, page) : input \in EventKinds, page \in S}
    IN IF T = S THEN S ELSE ReachableFrom(T)

\* the arguments of a lookup: every page identifier and some values out of range
PageArgs == (0 - PageMargin)..(DISPLAY_PAGE_LAST - 1 + PageMargin)

\* one lookup of the next page, as display_task does it for an input
Lookup ==
    /\ \E page \in PageArgs, input \in InputKinds :
        lookup' = [page |-> page, input |-> input,
                   new_page |-> HandleTransition(input, page),
                   next |-> NextPage(input, page)]
    /\ UNCHANGED <<now, cp_vars, pp_vars, lcd_call, dispatched, engine_vars,
                   life_vars>>

NextTable == Lookup

SpecTable == Init /\ [][NextTable]_vars

(* ------------------------------ dispatch ------------------------------- *)
LCD_NUM_ROWS == 4
LCD_NUM_VISIBLE_COLUMNS == 20
Rows == 1..LCD_NUM_ROWS

\* page_specs[] with the handlers: the handler of an entry is named by the
\* position of the entry
Registry ==
    [page \in 0..(DISPLAY_PAGE_LAST - 1) |->
        [id |-> page_specs[page + 1], handler |-> page]]

\* a registry that is wrong at one page: the entry holds another identifier,
\* or no handler
Faults == {"none", "id", "handler"}
FaultyRegistry(page, fault) ==
    IF InRange(page) /\ fault = "id"
    THEN [Registry EXCEPT ![page].id = (page + 1) % DISPLAY_PAGE_LAST]
    ELSE IF InRange(page) /\ fault = "handler"
    THEN [Registry EXCEPT ![page].handler = NULL]
    ELSE Registry

\* the buffer holds for each row the length of its string and the number of
\* characters of it that a handler wrote; display_task empties the rows
EmptyBuffer == [i \in Rows |-> [strlen |-> 0, written |-> 0]]

\* the handler of position handler: _handle_page_blank empties the rows, any
\* other handler writes text characters in each row
Handler(handler, buffer, text) ==
    IF handler = DISPLAY_PAGE_BLANK
    THEN [i \in Rows |-> [strlen |-> 0, written |-> 0]]
    ELSE [i \in Rows |-> [strlen |-> text, written |-> text]]

\* variant: the identifier of the entry is not compared
CallsHandlerUnchecked(page, specs) ==
    /\ InRange(page)
    /\ specs[page].handler # NULL

\* the three tests of dispatch_to_handler
CallsHandler(page, specs) ==
    /\ InRange(page)
    /\ specs[page].id = page
    /\ specs[page].handler # NULL

\* dispatch_to_handler
Dispatch(buffer, page, specs, text) ==
    IF CallsHandler(page, specs)
    THEN Handler(specs[page].handler, buffer, text)
    ELSE buffer

\* _extend_page_buffer_rows
ExtendRows(buffer) ==
    [i \in Rows |-> [strlen |-> LCD_NUM_VISIBLE_COLUMNS,
                     written |-> buffer[i].written]]

\* the frame of a cycle of display_task: the rows are emptied, filled by the
\* handler and extended
FrameRows(page, specs, text) ==
    ExtendRows(Dispatch(EmptyBuffer, page, specs, text))

TextValues == 1..MaxText

\* one dispatch, as display_task does it at the top of a cycle
DispatchCall ==
    /\ \E page \in PageArgs, fault \in Faults, text \in TextValues :
        LET specs == FaultyRegistry(page, fault)
        IN dispatched' = [page |-> page, fault |-> fault, text |-> text,
                          called |-> CallsHandler(page, specs),
                          rows |-> FrameRows(page, specs, text)]
    /\ UNCHANGED <<now, cp_vars, pp_vars, lcd_call, lookup, engine_vars,
                   life_vars>>

NextDispatch == DispatchCall

SpecDispatch == Init /\ [][NextDispatch]_vars

(* --------------------------- the display task -------------------------- *)

\* variant: a frame is one primitive for each row
FramePrimitivesRowOnly == LCD_NUM_ROWS

\* a frame is a _move_cursor and a _write_string for each row
FramePrimitives == 2 * LCD_NUM_ROWS

\* the hardware under the page loop: during one wrapper call it answers every
\* attempt, or none
EngineHw == {[i \in 1..11 |-> TRUE], [i \in 1..11 |-> FALSE]}

Max(a, b) == IF a >= b THEN a ELSE b

\* variant: the lock is not taken
i2c_master_lock_skipped(task) == "free"

\* i2c_master_lock: the owner of the lock once the call returns
i2c_master_lock(task) == task

\* variant: the lock is kept
i2c_master_unlock_kept(owner) == owner

\* i2c_master_unlock: the owner of the lock once the call returns
i2c_master_unlock(owner) == "free"

\* display_task up to its loop: the device is set up under the lock; a failure
\* of the set-up aborts the firmware (ESP_ERROR_CHECK)
DisplaySetup ==
    /\ d_pc = "setup"
    /\ i2c_lock = "free"
    /\ \E ok \in BOOLEAN :
        IF ok
        THEN /\ d_pc' = "render"
             /\ i2c_lock' = i2c_master_unlock(i2c_master_lock("display"))
             /\ backlight' = TRUE
             /\ current_page' = INITIAL_PAGE
             /\ backlight_timestamp' = uptime
        ELSE /\ d_pc' = "abort"
             /\ i2c_lock' = i2c_master_lock("display")
             /\ UNCHANGED <<backlight, current_page, backlight_timestamp>>
    /\ UNCHANGED <<now, cp_vars, pp_vars, pure_vars, life_vars, frame, d_ops, d_input, d_timeout, queue, uptime,
                   display_page, dump_running>>

\* the top of the loop up to the lock of _render_page_buffer: the buffer is
\* filled for the current page, then the task waits for the bus
DisplayLock ==
    /\ d_pc = "render"
    /\ i2c_lock = "free"
    /\ i2c_lock' = i2c_master_lock("display")
    /\ d_pc' = "frame"
    /\ frame' = NoFrame
    /\ d_ops' = <<>>
    /\ d_input' = NoInput
    /\ d_timeout' = Unread
    /\ UNCHANGED <<now, cp_vars, pp_vars, pure_vars, life_vars, current_page, queue,
                   backlight, backlight_timestamp, uptime, display_page,
                   dump_running>>

\* the frame after one more primitive with result r
FrameAfter(f, r) ==
    [prims |-> f.prims + 1,
     all_failed |-> f.all_failed /\ r.err # ESP_OK,
     max_attempts |-> Max(f.max_attempts, r.attempts)]

\* variant: _render_page_buffer returns with the lock
LockAfterPrimitiveKept(prims, owner) == owner

\* the lock after the prims-th primitive of _render_page_buffer: the unlock
\* follows the last one
LockAfterPrimitive(prims, owner) ==
    IF prims = FramePrimitives THEN i2c_master_unlock(owner) ELSE owner

\* one _move_cursor or _write_string of _render_page_buffer
DisplayPrimitiveOn(Hws) ==
    /\ d_pc = "frame"
    /\ \E hw \in Hws, accepted \in ResetAnswers :
        /\ frame' = FrameAfter(frame, Wrapper(hw, accepted))
        /\ i2c_lock' = LockAfterPrimitive(frame.prims + 1, i2c_lock)
        /\ d_pc' = IF frame.prims + 1 = FramePrimitives THEN "wait" ELSE d_pc
    /\ UNCHANGED <<now, cp_vars, pp_vars, pure_vars, life_vars, current_page, d_ops, d_input, d_timeout, queue,
                   backlight, backlight_timestamp, uptime, display_page,
                   dump_running>>

DisplayPrimitive == DisplayPrimitiveOn(EngineHw)

\* variant: the display is reset on every committed transition
HomeResetAlways(commit, page) == commit

\* the reset and clear of the display in the commit branch
HomeReset(commit, page) == commit /\ page = DISPLAY_PAGE_MAIN

\* variant: any input on the main page dumps the store
DumpCondAnyInput(page, input) == page = DISPLAY_PAGE_MAIN

\* the condition of _dump_datastore
DumpCond(page, input) == page = DISPLAY_PAGE_MAIN /\ input = BUTTON_EVENT_SHORT

\* variant: the timestamp is left alone
InputTimestampKept(timestamp, seconds_since_boot) == timestamp

\* backlight_timestamp after an input
InputTimestamp(timestamp, seconds_since_boot) == seconds_since_boot

\* variant: the backlight goes off as soon as the timeout is reached
BacklightExpiredAtTimeout(backlight_timeout, seconds_since_boot, timestamp) ==
    backlight_timeout > 0 /\ seconds_since_boot - timestamp >= backlight_timeout

\* the condition of the backlight timeout
BacklightExpired(backlight_timeout, seconds_since_boot, timestamp) ==
    backlight_timeout > 0 /\ seconds_since_boot - timestamp > backlight_timeout

\* variant: the page is published at every input
PublishedAlways(commit, page, published) == page

\* RESOURCE_ID_DISPLAY_PAGE after the handling of an input
Published(commit, page, published) == IF commit THEN page ELSE published

\* the handling of an input taken from the queue, up to the backlight timeout
InputOps(input, page, commit) ==
    <<"backlight_on">>
        \o (IF HomeReset(commit, page) THEN <<"reset", "clear">> ELSE <<>>)
        \o (IF DumpCond(page, input) THEN <<"dump">> ELSE <<>>)

\* the backlight timeout at the end of a cycle
TimeoutOps(backlight_timeout, seconds_since_boot, timestamp) ==
    IF BacklightExpired(backlight_timeout, seconds_since_boot, timestamp)
    THEN <<"backlight_off">>
    ELSE <<>>

\* the backlight after the commands ops
BacklightAfter(b, ops) ==
    IF ops # <<>> /\ ops[Len(ops)] = "backlight_off" THEN FALSE
    ELSE IF ops # <<>> /\ ops[1] = "backlight_on" THEN TRUE
    ELSE b

\* variant: the event that arrived last is taken first
xQueueReceiveNewest(q) ==
    [item |-> q[Len(q)], rest |-> SubSeq(q, 1, Len(q) - 1)]

\* xQueueReceive on a queue that is not empty: the item copied out and the
\* queue it leaves
xQueueReceive(q) == [item |-> Head(q), rest |-> Tail(q)]

\* xQueueReceive returned an input: the rest of the cycle
DisplayInputOn(Timeouts) ==
    /\ d_pc = "wait"
    /\ queue # <<>>
    /\ \E backlight_timeout \in Timeouts :
        LET input == xQueueReceive(queue).item
            new_page == HandleTransition(input, current_page)
            commit == Commits(new_page, current_page)
            page == NextPage(input, current_page)
            timestamp == InputTimestamp(backlight_timestamp, uptime)
            ops == InputOps(input, page, commit)
                     \o TimeoutOps(backlight_timeout, uptime, timestamp)
        IN /\ queue' = xQueueReceive(queue).rest
           /\ current_page' = page
           /\ display_page' = Published(commit, page, display_page)
           /\ backlight_timestamp' = timestamp
           /\ d_ops' = ops
           /\ d_input' = input
           /\ d_timeout' = backlight_timeout
           /\ backlight' = BacklightAfter(backlight, ops)
           /\ dump_running' = (dump_running \/ DumpCond(page, input))
    /\ d_pc' = "render"
    /\ frame' = NoFrame
    /\ UNCHANGED <<now, cp_vars, pp_vars, pure_vars, life_vars, i2c_lock, uptime>>

\* xQueueReceive timed out: the rest of the cycle
DisplayIdleOn(Timeouts) ==
    /\ d_pc = "wait"
    /\ queue = <<>>
    /\ \E backlight_timeout \in Timeouts :
        LET ops == TimeoutOps(backlight_timeout, uptime, backlight_timestamp)
        IN /\ d_ops' = ops
           /\ d_timeout' = backlight_timeout
           /\ backlight' = BacklightAfter(backlight, ops)
    /\ d_pc' = "render"
    /\ frame' = NoFrame
    /\ UNCHANGED <<now, cp_vars, pp_vars, pure_vars, life_vars, current_page, d_input,
                   queue, i2c_lock, backlight_timestamp, uptime, display_page,
                   dump_running>>

TimeoutValues == 0..MaxTimeout

DisplayInput == DisplayInputOn(TimeoutValues)
DisplayIdle == DisplayIdleOn(TimeoutValues)

\* display_is_currently
display_is_currently(page) == page = display_page

\* dump_datastore_task runs to its end
DumpFinish ==
    /\ dump_running
    /\ dump_running' = FALSE
    /\ UNCHANGED <<now, cp_vars, pp_vars, pure_vars, life_vars, d_pc, current_page, frame,
                   d_ops, d_input, d_timeout, queue, i2c_lock, backlight, backlight_timestamp,
                   uptime, display_page>>

\* the button or the rotary encoder puts an event in the queue
EnqueueUpTo(Kinds, capacity) ==
    /\ Len(queue) < capacity
    /\ \E input \in Kinds : queue' = Append(queue, input)
    /\ UNCHANGED <<now, cp_vars, pp_vars, pure_vars, life_vars, d_pc, current_page, frame,
                   d_ops, d_input, d_timeout, i2c_lock, backlight, backlight_timestamp, uptime,
                   display_page, dump_running>>

EnqueueOn(Kinds) == EnqueueUpTo(Kinds, MaxQueue)

Enqueue == EnqueueOn(InputKinds)

\* a second passes
AdvanceUptime ==
    /\ uptime < MaxUptime
    /\ uptime' = uptime + 1
    /\ UNCHANGED <<now, cp_vars, pp_vars, pure_vars, life_vars, d_pc, current_page, frame,
                   d_ops, d_input, d_timeout, queue, i2c_lock, backlight, backlight_timestamp,
                   display_page, dump_running>>

\* another user of the bus takes the lock
OtherLock ==
    /\ i2c_lock = "free"
    /\ i2c_lock' = i2c_master_lock("other")
    /\ UNCHANGED <<now, cp_vars, pp_vars, pure_vars, life_vars, d_pc, current_page, frame,
                   d_ops, d_input, d_timeout, queue, backlight, backlight_timestamp, uptime,
                   display_page, dump_running>>

\* the other user of the bus gives the lock back
OtherUnlock ==
    /\ i2c_lock = "other"
    /\ i2c_lock' = i2c_master_unlock(i2c_lock)
    /\ UNCHANGED <<now, cp_vars, pp_vars, pure_vars, life_vars, d_pc, current_page, frame,
                   d_ops, d_input, d_timeout, queue, backlight, backlight_timestamp, uptime,
                   display_page, dump_running>>

\* the test of display_init on its static flag
AlreadyInitialised(done) == done

\* the task is between its creation and its deletion
TaskAlive == d_pc \notin {"none", "deleted", "abort"}

\* display_init: the first call creates the queue and, if malloc and
\* xTaskCreate succeed, the task; a later call logs an error
display_init ==
    /\ life.inits < MaxCalls
    /\ d_pc # "abort"
    /\ IF ~AlreadyInitialised(init)
       THEN /\ \E created \in BOOLEAN :
                 /\ task_handle' = IF created THEN DISPLAY_TASK
                                   ELSE task_handle
                 /\ d_pc' = IF created THEN "setup" ELSE d_pc
                 /\ life' = [life EXCEPT
                               !.inits = @ + 1,
                               !.queues = @ + 1,
                               !.tasks = IF created THEN @ + 1 ELSE @]
            /\ queue' = <<>>
            /\ init' = TRUE
       ELSE /\ life' = [life EXCEPT !.inits = @ + 1]
            /\ UNCHANGED <<init, task_handle, d_pc, queue>>
    /\ UNCHANGED <<now, cp_vars, pp_vars, pure_vars, current_page, frame,
                   d_ops, d_input, d_timeout, i2c_lock, backlight,
                   backlight_timestamp, uptime, display_page, dump_running>>

\* display_delete: vTaskDelete on the handle unless it is NULL. A task that
\* is deleted keeps the mutex it holds, and the handle is left as it is: a
\* later call passes the handle of a task that no longer exists, which
\* FreeRTOS leaves undefined (here: no effect, or a fault of the firmware)
display_delete ==
    /\ life.deletes < MaxCalls
    /\ d_pc # "abort"
    /\ IF task_handle = NULL
       THEN /\ life' = [life EXCEPT !.deletes = @ + 1]
            /\ d_pc' = d_pc
       ELSE IF TaskAlive
       THEN /\ life' = [life EXCEPT !.deletes = @ + 1,
                                    !.task_deletes = @ + 1]
            /\ d_pc' = "deleted"
       ELSE /\ life' = [life EXCEPT !.deletes = @ + 1,
                                    !.stale_deletes = @ + 1]
            /\ d_pc' \in {d_pc, "abort"}
    /\ UNCHANGED <<now, cp_vars, pp_vars, pure_vars, init, task_handle,
                   current_page, frame, d_ops, d_input, d_timeout, queue,
                   i2c_lock, backlight, backlight_timestamp, uptime,
                   display_page, dump_running>>

\* the display task with events piling up in its queue: turns clockwise and
\* short presses arrive while it renders, the hardware answers, the backlight
\* timeout is off
NextDrain ==
    \/ DisplaySetup
    \/ DisplayLock
    \/ DisplayPrimitiveOn({[i \in 1..11 |-> TRUE]})
    \/ DisplayInputOn({0})
    \/ DisplayIdleOn({0})
    \/ DumpFinish
    \/ EnqueueUpTo({ROTARY_ENCODER_EVENT_CLOCKWISE, BUTTON_EVENT_SHORT},
                   MaxPending)

SpecDrain == Init /\ [][NextDrain]_vars

\* the display task between display_init and display_delete, beside another
\* user of the bus, no input arriving
NextLife ==
    \/ display_init
    \/ display_delete
    \/ DisplaySetup
    \/ DisplayLock
    \/ DisplayPrimitive
    \/ DisplayIdle
    \/ AdvanceUptime
    \/ OtherLock
    \/ OtherUnlock

SpecLife == InitBoot /\ [][NextLife]_vars

NextDisplay ==
    \/ DisplaySetup
    \/ DisplayLock
    \/ DisplayPrimitive
    \/ DisplayInput
    \/ DisplayIdle
    \/ DumpFinish
    \/ Enqueue
    \/ AdvanceUptime
    \/ OtherLock
    \/ OtherUnlock

SpecDisplay == Init /\ [][NextDisplay]_vars

\* the display task as FreeRTOS schedules it: a task that can run does run,
\* the lock it waits for is given to it if it is free again and again, the
\* other user of the bus gives the lock back, and time passes
DisplayFairness ==
    /\ SF_vars(DisplaySetup)
    /\ SF_vars(DisplayLock)
    /\ WF_vars(DisplayPrimitive)
    /\ WF_vars(DisplayInput)
    /\ WF_vars(DisplayIdle)
    /\ WF_vars(OtherUnlock)
    /\ WF_vars(AdvanceUptime)

\* the display task with the events of a turn clockwise and of a short press
NextDisplayFair ==
    \/ DisplaySetup
    \/ DisplayLock
    \/ DisplayPrimitive
    \/ DisplayInput
    \/ DisplayIdle
    \/ DumpFinish
    \/ EnqueueOn({ROTARY_ENCODER_EVENT_CLOCKWISE, BUTTON_EVENT_SHORT})
    \/ AdvanceUptime
    \/ OtherLock
    \/ OtherUnlock

SpecDisplayFair == Init /\ [][NextDisplayFair]_vars /\ DisplayFairness

\* the display task beside the CP loop, no input arriving
NextBoth ==
    \/ CpStart
    \/ CpTickFixed
    \/ AdvanceTime
    \/ DisplaySetup
    \/ DisplayLock
    \/ DisplayPrimitive
    \/ DisplayIdle

SpecBoth == Init /\ [][NextBoth]_vars

(* ======================================================================= *)
(*                              Properties                                 *)
(* ======================================================================= *)
\* a step that is one iteration of the CP loop / of the PP loop
IsCpTick ==
    /\ cp_pc \in {"settle", "delay"}
    /\ cp_pc' = "delay"
    /\ (cp_pc = "settle" \/ cp_last_wake_time' # cp_last_wake_time)

IsPpTick ==
    /\ pp_pc \in {"settle", "delay"}
    /\ pp_pc' = "delay"
    /\ (pp_pc = "settle" \/ pp_last_wake_time' # pp_last_wake_time)

\* C1: in a CP tick that starts in state OFF and reads T1 - T2 >= on-delta,
\* the state becomes ON and exactly one actuation call, with value ON, is made
C1_OffToOn ==
    [][(IsCpTick /\ cp_state = AVR_PUMP_STATE_OFF
          /\ cp_in'.t1 - cp_in'.t2 >= cp_in'.delta)
       => (cp_state' = AVR_PUMP_STATE_ON
             /\ cp_calls' = <<AVR_PUMP_STATE_ON>>)]_vars

C1_Witness ==
    /\ cp_pc = "delay"
    /\ cp_state = AVR_PUMP_STATE_ON
    /\ cp_calls = <<AVR_PUMP_STATE_ON>>
    /\ cp_in.t1 - cp_in.t2 = cp_in.delta

\* C2: in a CP tick that starts in state ON, reading T1 - T2 <= off-delta
\* turns the state OFF with exactly one actuation call (OFF), and reading
\* T1 - T2 > off-delta leaves the state ON
C2_OnToOff ==
    [][(IsCpTick /\ cp_state = AVR_PUMP_STATE_ON)
       => /\ (cp_in'.t1 - cp_in'.t2 <= cp_in'.delta)
               => (cp_state' = AVR_PUMP_STATE_OFF
                     /\ cp_calls' = <<AVR_PUMP_STATE_OFF>>)
          /\ (cp_in'.t1 - cp_in'.t2 > cp_in'.delta)
               => cp_state' = AVR_PUMP_STATE_ON]_vars

C2_Witness ==
    /\ cp_pc = "delay"
    /\ cp_state = AVR_PUMP_STATE_OFF
    /\ cp_calls = <<AVR_PUMP_STATE_OFF>>
    /\ cp_in.t1 - cp_in.t2 = cp_in.delta
    /\ cp_run.flips > 0

\* C3: a CP tick makes an actuation call only if it changed the CP state; a
\* tick that leaves the state unchanged makes no call, and no step other
\* than a step of the CP task makes one
C3_CallOnlyOnTransition ==
    [][/\ IsCpTick => /\ (cp_calls' # <<>>) => (cp_state' # cp_state)
                      /\ (cp_state' = cp_state) => (cp_calls' = <<>>)
       /\ (cp_pc' = cp_pc /\ cp_last_wake_time' = cp_last_wake_time)
            => (cp_calls' = cp_calls /\ cp_pump' = cp_pump)]_vars

C3_Witness ==
    /\ cp_pc = "delay"
    /\ cp_state = AVR_PUMP_STATE_ON
    /\ cp_calls = <<>>
    /\ cp_in.delta < cp_in.t1 - cp_in.t2
    /\ cp_run.flips = 0

\* C4 as stated: over a run of ticks that read constant temperatures and
\* thresholds the CP state changes at most once, whatever the thresholds
C4_Claim == cp_run.flips <= 1

\* C4 amended: over such a run the CP state changes more than once only if
\* on-delta <= off-delta; with off-delta < on-delta it changes at most once
C4_NoOscillation ==
    (cp_run.flips >= 2)
        => /\ cp_run.on # Unread
           /\ cp_run.off # Unread
           /\ cp_run.on <= cp_run.off

C4_Witness ==
    /\ cp_run.on # Unread
    /\ cp_run.off # Unread
    /\ cp_run.off < cp_run.on
    /\ cp_run.flips = 1
    /\ cp_calls = <<>>

\* C5 as stated: a sequence started with cycle count N has at most N ON
\* phases, the remaining-cycle counter is N minus the ON phases entered, and
\* on return to OFF it has had exactly N ON phases and N PAUSE phases
C5_Claim ==
    (pp_hist.on > 0)
        => /\ pp_hist.on <= pp_hist.N
           /\ (pp_state # STATE_PP_OFF) => (n = pp_hist.N - pp_hist.on)
           /\ (pp_state = STATE_PP_OFF)
                => (pp_hist.on = pp_hist.N /\ pp_hist.pause = pp_hist.N)

\* C6 as stated: a PP tick in state OFF goes to ON iff it reads CP state ON
\* and flow rate <= threshold; it then commands the pump ON, sets cycle-start
\* to the tick's wake time and remaining cycles to the cycle count minus one;
\* otherwise it stays OFF and makes no call
C6_Claim ==
    [][(IsPpTick /\ pp_state = STATE_PP_OFF)
       => IF pp_in'.cp_state = AVR_PUMP_STATE_ON
              /\ pp_in'.flow_rate <= pp_in'.flow_threshold
          THEN /\ pp_state' = STATE_PP_ON
               /\ pp_calls' = <<AVR_PUMP_STATE_ON>>
               /\ cycle_start_time' = pp_last_wake_time'
               /\ n' = pp_hist'.N - 1
          ELSE /\ pp_state' = STATE_PP_OFF
               /\ pp_calls' = <<>>]_vars

\* ticks elapsed at the current tick count since cycle_start_time
SinceCycleStart == TickSub(now, cycle_start_time)

\* C7 as stated: a PP tick in state ON stays ON while less than on-duration
\* has elapsed since cycle-start, and otherwise goes to PAUSE, commanding the
\* pump OFF and recording a new cycle-start, for every tick counter value
C7_Claim ==
    [][(IsPpTick /\ pp_state = STATE_PP_ON)
       => IF SinceCycleStart >= pp_in'.duration * configTICK_RATE_HZ
          THEN /\ pp_state' = STATE_PP_PAUSE
               /\ pp_calls' = <<AVR_PUMP_STATE_OFF>>
               /\ cycle_start_time' = pp_last_wake_time'
          ELSE pp_state' = STATE_PP_ON]_vars

\* C8 as stated: a PP tick in state PAUSE makes no transition while less than
\* pause-duration has elapsed since cycle-start; otherwise with remaining
\* cycles > 0 it goes to ON, decrements them, commands the pump ON and records
\* a new cycle-start, and with remaining cycles = 0 it goes to OFF
C8_Claim ==
    [][(IsPpTick /\ pp_state = STATE_PP_PAUSE)
       => IF SinceCycleStart >= pp_in'.duration * configTICK_RATE_HZ
          THEN IF n > 0
               THEN /\ pp_state' = STATE_PP_ON
                    /\ n' = n - 1
                    /\ pp_calls' = <<AVR_PUMP_STATE_ON>>
                    /\ cycle_start_time' = pp_last_wake_time'
               ELSE pp_state' = STATE_PP_OFF
          ELSE pp_state' = STATE_PP_PAUSE]_vars

\* C9: a PP tick makes an actuation call only if it changed the PP state; a
\* tick that leaves the state unchanged makes no call, and no step other
\* than a step of the PP task makes one
C9_CallOnlyOnTransition ==
    [][/\ IsPpTick => /\ (pp_calls' # <<>>) => (pp_state' # pp_state)
                      /\ (pp_state' = pp_state) => (pp_calls' = <<>>)
       /\ (pp_pc' = pp_pc /\ pp_last_wake_time' = pp_last_wake_time)
            => (pp_calls' = pp_calls /\ pp_pump' = pp_pump)]_vars

C9_Witness ==
    /\ pp_pc = "delay"
    /\ pp_state = STATE_PP_ON
    /\ pp_calls = <<>>
    /\ pp_pump = AVR_PUMP_STATE_ON
    /\ pp_last_wake_time # cycle_start_time

\* C10: each controller enters its settling delay in state OFF with its
\* actuator commanded OFF and nothing else commanded, keeps both until its
\* first loop iteration, and runs that iteration no earlier than 10 seconds
\* after the task started
C10_SafeStart ==
    [][/\ (cp_pc' = "settle")
            => /\ cp_state' = AVR_PUMP_STATE_OFF
               /\ cp_pump' = AVR_PUMP_STATE_OFF
               /\ cp_calls' = <<AVR_PUMP_STATE_OFF>>
       /\ (cp_pc = "settle" /\ cp_pc' # "settle")
            => TickSub(now, cp_last_wake_time) >= 10 * configTICK_RATE_HZ
       /\ (pp_pc' = "settle")
            => /\ pp_state' = STATE_PP_OFF
               /\ pp_pump' = AVR_PUMP_STATE_OFF
               /\ pp_calls' = <<AVR_PUMP_STATE_OFF>>
       /\ (pp_pc = "settle" /\ pp_pc' # "settle")
            => TickSub(now, pp_last_wake_time) >= 10 * configTICK_RATE_HZ
      ]_vars

C10_Witness ==
    /\ cp_pc = "settle"
    /\ pp_pc = "settle"
    /\ cp_pump = AVR_PUMP_STATE_OFF
    /\ pp_pump = AVR_PUMP_STATE_OFF
    /\ TickSub(now, cp_last_wake_time) >= 10 * configTICK_RATE_HZ
    /\ TickSub(now, pp_last_wake_time) >= 10 * configTICK_RATE_HZ

\* C11 as stated: a PP tick in the middle of an ON or PAUSE phase that reads
\* a duration other than the one the previous tick of the phase read ends the
\* phase iff the new duration has elapsed since cycle-start
C11_Claim ==
    [][(/\ IsPpTick
        /\ pp_state \in {STATE_PP_ON, STATE_PP_PAUSE}
        /\ pp_last_wake_time # cycle_start_time
        /\ pp_in'.duration # pp_in.duration)
       => ((pp_state' # pp_state)
             <=> (SinceCycleStart >= pp_in'.duration * configTICK_RATE_HZ))
      ]_vars

\* C12: a wrapper call whose hardware operation fails on every attempt makes
\* exactly 10 attempts and returns the failure; no call makes an 11th attempt
C12_RetryBound ==
    (lcd_call.prim \in Primitives)
        => /\ lcd_call.attempts <= 10
           /\ (\A i \in 1..11 : ~lcd_call.hw[i])
                => (lcd_call.attempts = 10 /\ lcd_call.err = ESP_FAIL)

C12_Witness ==
    /\ lcd_call.prim = "write_string"
    /\ \A i \in 1..11 : ~lcd_call.hw[i]
    /\ lcd_call.attempts = 10
    /\ lcd_call.err = ESP_FAIL

\* a step of display_task
IsDisplayStep == d_pc' # d_pc \/ frame' # frame

\* C13: a frame whose primitives all fail takes at most 10 attempts for each
\* of its 8 primitives and ends at the input wait with the lock released; the
\* next step of the display task is enabled wherever it stands in such a
\* frame, the wait leads to the next cycle, and no step of the display task
\* touches the CP or PP loop, whose tick stays enabled when due
C13_BestEffort ==
    /\ []((frame.all_failed /\ frame.prims > 0)
            => /\ frame.max_attempts = 10
               /\ d_pc \in {"frame", "wait"}
               /\ (d_pc = "frame")
                    => (frame.prims < 8 /\ ENABLED DisplayPrimitive)
               /\ (d_pc = "wait")
                    => /\ frame.prims = 8
                       /\ i2c_lock = "free"
                       /\ ENABLED (DisplayInput \/ DisplayIdle))
    /\ []((d_pc = "render") => ENABLED DisplayLock)
    /\ []((cp_pc = "delay" /\ Due(cp_pc, cp_last_wake_time))
            => ENABLED CpTickFixed)
    /\ [][IsDisplayStep
            => /\ UNCHANGED <<now, cp_vars, pp_vars>>
               /\ (d_pc = "wait") => (d_pc' = "render")]_vars

C13_Witness ==
    /\ d_pc = "wait"
    /\ frame.all_failed
    /\ frame.prims = 8
    /\ frame.max_attempts = 10
    /\ i2c_lock = "free"
    /\ cp_state = AVR_PUMP_STATE_ON

\* C14: while the display task is in a frame, from before the first
\* _move_cursor to the last _write_string, it holds the lock of the bus and
\* no other user of the bus can take it
C14_FrameAtomic ==
    (d_pc = "frame") => (i2c_lock = "display" /\ ~ENABLED OtherLock)

C14_Witness ==
    /\ d_pc = "frame"
    /\ frame.prims = 7
    /\ frame.max_attempts = 10
    /\ i2c_lock = "display"

\* C15: the display task does not hold the lock of the bus while it waits on
\* the input queue
C15_NoLockWhileWaiting == (d_pc = "wait") => (i2c_lock # "display")

C15_Witness ==
    /\ d_pc = "wait"
    /\ frame.all_failed
    /\ i2c_lock = "other"

\* C16: the registry and the transition table have one entry for each page
\* identifier, at the index equal to the identifier; for every page identifier
\* and each of the four input kinds the lookup yields a page identifier or the
\* ignore sentinel, and the engine stays on the page iff it is the sentinel
\* or the page itself
C16_TableTotal ==
    /\ Len(page_specs) = DISPLAY_PAGE_LAST
    /\ Len(transitions) = DISPLAY_PAGE_LAST
    /\ (InRange(lookup.page) /\ lookup.input \in EventKinds)
         => /\ page_specs[lookup.page + 1] = lookup.page
            /\ transitions[lookup.page + 1].current = lookup.page
            /\ Cardinality({i \in 1..Len(transitions) :
                              transitions[i].current = lookup.page}) = 1
            /\ lookup.new_page \in (0..15) \cup {DISPLAY_PAGE_IGNORE}
            /\ lookup.next = IF lookup.new_page = DISPLAY_PAGE_IGNORE
                             THEN lookup.page
                             ELSE lookup.new_page

C16_Witness ==
    /\ lookup.page = DISPLAY_PAGE_SENSORS_TEMP
    /\ lookup.input = BUTTON_EVENT_LONG
    /\ lookup.new_page = DISPLAY_PAGE_IGNORE
    /\ lookup.next = DISPLAY_PAGE_SENSORS_TEMP

\* display_task is in its loop
InLoop == d_pc \in {"render", "frame", "wait"}

\* C17 as stated: once the display task is in its loop, display_is_currently(P)
\* is true exactly for P = current_page, also before the first transition
C17_Claim ==
    InLoop => \A P \in 0..(DISPLAY_PAGE_LAST - 1) :
                  display_is_currently(P) <=> (P = current_page)

\* the rest of a cycle after the wait on the queue, and the same after an
\* input was taken
IsWaitStep == d_pc = "wait" /\ d_pc' = "render"
IsInputStep == IsWaitStep /\ queue # <<>>

Commanded(ops, op) == \E i \in 1..Len(ops) : ops[i] = op
ResetThenClear(ops) ==
    \E i \in 1..Len(ops) - 1 : ops[i] = "reset" /\ ops[i + 1] = "clear"

\* C18: a cycle resets and then clears the display iff it commits a transition
\* to the main page; it does neither otherwise
C18_HomeReset ==
    [][IsWaitStep
        => /\ ResetThenClear(d_ops')
                <=> (current_page' # current_page
                       /\ current_page' = DISPLAY_PAGE_MAIN)
           /\ ResetThenClear(d_ops')
                \/ (~Commanded(d_ops', "reset") /\ ~Commanded(d_ops', "clear"))
      ]_vars

C18_Witness ==
    /\ d_pc = "render"
    /\ d_input = ROTARY_ENCODER_EVENT_CLOCKWISE
    /\ current_page = DISPLAY_PAGE_MAIN
    /\ d_ops = <<"backlight_on", "reset", "clear">>

\* C19: a cycle spawns the dump task iff it took a short press while the
\* current page was the main page; the display task starts its next frame
\* while the dump task runs
C19_Dump ==
    /\ [][IsWaitStep
            => /\ Commanded(d_ops', "dump")
                    <=> /\ queue # <<>>
                        /\ Head(queue) = BUTTON_EVENT_SHORT
                        /\ current_page = DISPLAY_PAGE_MAIN
               /\ Commanded(d_ops', "dump") => dump_running'
          ]_vars
    /\ []((dump_running /\ d_pc = "render" /\ i2c_lock = "free")
            => ENABLED DisplayLock)
    /\ []((dump_running /\ d_pc = "frame") => ENABLED DisplayPrimitive)

C19_Witness ==
    /\ dump_running
    /\ d_pc = "frame"
    /\ frame.prims > 0
    /\ current_page = DISPLAY_PAGE_MAIN

\* C20: every cycle that takes an input from the queue, whatever its kind and
\* whether the page changes or not, first commands the backlight on and sets
\* backlight_timestamp to the seconds since boot; the timeout check of the
\* cycle then sees no idle time
C20_InputWakesBacklight ==
    [][IsInputStep
        => /\ d_ops' # <<>>
           /\ d_ops'[1] = "backlight_on"
           /\ backlight_timestamp' = uptime
           /\ ~Commanded(d_ops', "backlight_off")
           /\ backlight'
      ]_vars

C20_Witness ==
    /\ d_pc = "render"
    /\ d_input = INPUT_OTHER
    /\ current_page = DISPLAY_PAGE_SENSORS_FLOW
    /\ d_ops = <<"backlight_on">>
    /\ uptime = 2
    /\ backlight_timestamp = 2
    /\ backlight

\* C21: a cycle commands the backlight off iff the timeout it read is not 0
\* and the seconds since backlight_timestamp (the last input taken, or the
\* start of the task) exceed it; and while the time modelled leaves room for
\* the timeout to pass, a cycle commands the backlight off, or takes an input,
\* or reads the timeout 0
C21_BacklightTimeout ==
    /\ [][IsWaitStep
            => /\ Commanded(d_ops', "backlight_off")
                    <=> /\ d_timeout' > 0
                        /\ uptime - backlight_timestamp' > d_timeout'
               /\ Commanded(d_ops', "backlight_off") => ~backlight'
          ]_vars
    /\ []((InLoop /\ backlight_timestamp + MaxTimeout < MaxUptime)
            => <>(\/ Commanded(d_ops, "backlight_off")
                  \/ d_input # NoInput
                  \/ d_timeout = 0))

C21_Witness ==
    /\ d_pc = "render"
    /\ d_ops = <<"backlight_off">>
    /\ d_input = NoInput
    /\ d_timeout = 1
    /\ uptime - backlight_timestamp = 2
    /\ ~backlight

\* C22: once display_task is in its loop it stays in it and, whether inputs
\* arrive or not, it writes the 8 primitives of a frame and comes to the wait
\* on the queue again and again
C22_LoopLive ==
    /\ [][InLoop => InLoop']_vars
    /\ [](InLoop => []<>(d_pc = "wait" /\ frame.prims = 8))

C22_Witness ==
    /\ d_pc = "wait"
    /\ frame.prims = 8
    /\ queue = <<>>
    /\ uptime = 2
    /\ current_page = DISPLAY_PAGE_MAIN
    /\ display_page = DATASTORE_DEFAULT

\* the frame of the blank page: four rows of LCD_NUM_VISIBLE_COLUMNS spaces
BlankFrame == [i \in 1..4 |-> [strlen |-> 20, written |-> 0]]

\* C23: a dispatch with a page identifier out of range, or whose entry holds
\* another identifier or no handler, calls no handler and gives four blank
\* rows, the frame of the blank page
C23_DispatchFallback ==
    /\ FrameRows(DISPLAY_PAGE_BLANK, Registry, MaxText) = BlankFrame
    /\ (/\ dispatched # NoDispatch
        /\ \/ ~InRange(dispatched.page)
           \/ dispatched.fault # "none")
         => /\ ~dispatched.called
            /\ dispatched.rows = BlankFrame

C23_Witness ==
    /\ dispatched.page = DISPLAY_PAGE_MAIN
    /\ dispatched.fault = "id"
    /\ ~dispatched.called
    /\ dispatched.rows = BlankFrame

\* C24 as stated: a cycle that takes an input of none of the four kinds puts
\* a default page in the place of the current page: the blank page, which
\* dispatch falls back to, or the initial page
C24_Claim ==
    [][(IsInputStep /\ Head(queue) \notin EventKinds)
        => current_page' \in {DISPLAY_PAGE_BLANK, INITIAL_PAGE}
      ]_vars

\* C24 amended: a cycle that takes an input of none of the four kinds keeps
\* the current page and the page published, resets and clears nothing, and
\* the loop goes on to its next frame
C24_UnknownInputKept ==
    /\ [][(IsInputStep /\ Head(queue) \notin EventKinds)
            => /\ current_page' = current_page
               /\ display_page' = display_page
               /\ d_pc' = "render"
               /\ d_ops' \in {<<"backlight_on">>,
                              <<"backlight_on", "backlight_off">>}
          ]_vars
    /\ []((d_pc = "render" /\ d_input \notin EventKinds /\ i2c_lock = "free")
            => ENABLED DisplayLock)

C24_Witness ==
    /\ d_pc = "render"
    /\ d_input = INPUT_OTHER
    /\ current_page = DISPLAY_PAGE_SENSORS_TEMP
    /\ display_page = DISPLAY_PAGE_SENSORS_TEMP
    /\ d_ops = <<"backlight_on">>

\* the pump state that goes with a state of the PP loop
PpPumpFor(state) ==
    IF state = STATE_PP_ON THEN AVR_PUMP_STATE_ON ELSE AVR_PUMP_STATE_OFF

\* C25: once a control task has started, and so at the end of each of its
\* ticks, the value last passed to its pump is ON iff its state is ON
C25_DecideThenAct ==
    /\ (cp_pc \in {"settle", "delay"}) => (cp_pump = cp_state)
    /\ (pp_pc \in {"settle", "delay"}) => (pp_pump = PpPumpFor(pp_state))

C25_Witness ==
    /\ cp_pc = "delay"
    /\ cp_state = AVR_PUMP_STATE_OFF
    /\ cp_pump = AVR_PUMP_STATE_OFF
    /\ cp_calls = <<AVR_PUMP_STATE_OFF>>
    /\ pp_pc = "delay"
    /\ pp_state = STATE_PP_PAUSE
    /\ pp_pump = AVR_PUMP_STATE_OFF

\* C26 as stated: each tick of a control loop after the first starts one
\* period after the start of the tick before it, whatever the time between
\* the wake-up of the task and its reading of the tick counter
C26_Claim ==
    [][/\ (IsCpTick /\ cp_pc = "delay")
            => (cp_last_wake_time' = TickAdd(cp_last_wake_time, PeriodTicks))
       /\ (IsPpTick /\ pp_pc = "delay")
            => (pp_last_wake_time' = TickAdd(pp_last_wake_time, PeriodTicks))
      ]_vars

\* C27: in the trace of a wrapper call every failed attempt is followed by
\* the delay and exactly one call of the re-initialisation (the reset and the
\* four glyph definitions, all five made iff the hardware accepts them);
\* whatever the re-initialisation gives, the next attempt follows unless 10
\* attempts were made; a successful attempt is the last event and returns
\* success, and no re-initialisation follows it
C27_ResetBetweenRetries ==
    LET trace == lcd_call.trace
        reset == IF lcd_call.accepted = RESET_STEPS THEN "reset_full"
                 ELSE "reset_partial"
        Count(events) == Cardinality({i \in 1..Len(trace) : trace[i] \in events})
    IN /\ Count({"ok", "fail"}) = lcd_call.attempts
       /\ Count({"reset_full", "reset_partial"}) = Count({"fail"})
       /\ \A i \in 1..Len(trace) :
            /\ (trace[i] = "fail")
                 => /\ Len(trace) >= i + 2
                    /\ trace[i + 1] = "delay"
                    /\ trace[i + 2] = reset
            /\ (trace[i] = "ok") => (i = Len(trace) /\ lcd_call.err = ESP_OK)
            /\ (trace[i] \in {"reset_full", "reset_partial"})
                 => /\ i > 2 /\ trace[i - 2] = "fail"
                    /\ (i < Len(trace)) => (trace[i + 1] \in {"ok", "fail"})
                    /\ (i = Len(trace)) => (lcd_call.attempts = 10)

C27_Witness ==
    /\ lcd_call.prim = "clear"
    /\ lcd_call.accepted = 3
    /\ lcd_call.trace = <<"fail", "delay", "reset_partial",
                          "fail", "delay", "reset_partial", "ok">>

\* the targets a lookup can give: every page id, the ignore sentinel and ids
\* out of range on both sides
Targets == PageArgs \cup {DISPLAY_PAGE_IGNORE}

\* C28: a cycle that takes an input whose target is the current page, the
\* ignore sentinel or out of range leaves the current page and the published
\* page as they were and neither resets nor clears the display; a cycle whose
\* target is another page in range makes it the current page and publishes it
\* in the same cycle; the guard of the commit rejects exactly the targets
\* equal to the current page, the sentinel and those out of range
C28_CommitGuard ==
    /\ [][IsInputStep
            => LET target == HandleTransition(Head(queue), current_page)
               IN IF \/ target = current_page
                     \/ target = DISPLAY_PAGE_IGNORE
                     \/ target < 0
                     \/ target >= DISPLAY_PAGE_LAST
                  THEN /\ current_page' = current_page
                       /\ display_page' = display_page
                       /\ ~Commanded(d_ops', "reset")
                       /\ ~Commanded(d_ops', "clear")
                  ELSE /\ current_page' = target
                       /\ display_page' = target
         ]_vars
    /\ [](\A target \in Targets :
            Commits(target, current_page)
                <=> ~(\/ target = current_page
                      \/ target = DISPLAY_PAGE_IGNORE
                      \/ target < 0
                      \/ target >= DISPLAY_PAGE_LAST))

C28_Witness ==
    /\ d_pc = "render"
    /\ d_input = BUTTON_EVENT_SHORT
    /\ current_page = DISPLAY_PAGE_SENSORS_TEMP_2
    /\ display_page = DISPLAY_PAGE_SENSORS_TEMP_2
    /\ d_ops[1] = "backlight_on"

\* C29: from the initial page on, whatever inputs are taken, the current page
\* of the display task is a page id in range and is not the blank page; no
\* entry of the transition table targets the blank page
C29_CurrentPageValid ==
    /\ InLoop => /\ current_page >= 0
                 /\ current_page < DISPLAY_PAGE_LAST
                 /\ current_page # DISPLAY_PAGE_BLANK
    /\ \A i \in 1..Len(transitions) :
          DISPLAY_PAGE_BLANK \notin {transitions[i].on_counter_clockwise,
                                     transitions[i].on_clockwise,
                                     transitions[i].on_short,
                                     transitions[i].on_long}

C29_Witness ==
    /\ d_pc = "render"
    /\ d_input = INPUT_OTHER
    /\ current_page = DISPLAY_PAGE_AVR_STATUS
    /\ display_page = DISPLAY_PAGE_AVR_STATUS

\* the commands of a cycle that go to the display hardware
HardwareOps == {"backlight_on", "backlight_off", "reset", "clear"}

\* C30 as stated: every step of the loop of the display task that writes to
\* the display hardware -- a primitive of the frame, or the backlight, reset
\* and clear commands of the rest of the cycle -- is taken while the display
\* task holds the bus lock
C30_Claim ==
    [][/\ (d_pc = "frame" /\ frame'.prims > frame.prims)
            => i2c_lock = "display"
       /\ (IsWaitStep /\ \E i \in 1..Len(d_ops') : d_ops'[i] \in HardwareOps)
            => i2c_lock = "display"
      ]_vars

\* C32: a PP tick that starts in state ON or PAUSE moves as the tick time,
\* the duration read, cycle_start_time and n alone decide, whatever flow rate
\* and CP state the store holds; a tick that goes from PAUSE to ON commands
\* the pump ON, also when the store's CP state is OFF
C32_SequenceIndependent ==
    [][(IsPpTick /\ pp_state \in {STATE_PP_ON, STATE_PP_PAUSE})
        => LET ended ==
                 pp_last_wake_time'
                   >= (cycle_start_time
                         + ((pp_in'.duration * configTICK_RATE_HZ) % TickMod))
                        % TickMod
               target ==
                 IF ~ended THEN pp_state
                 ELSE IF pp_state = STATE_PP_ON THEN STATE_PP_PAUSE
                 ELSE IF n > 0 THEN STATE_PP_ON
                 ELSE STATE_PP_OFF
           IN /\ pp_state' = target
              /\ (pp_state = STATE_PP_PAUSE /\ target = STATE_PP_ON)
                   => pp_calls' = <<AVR_PUMP_STATE_ON>>
              /\ (target = pp_state) => (pp_calls' = <<>>)
      ]_vars

C32_Witness ==
    /\ pp_pc = "delay"
    /\ pp_state = STATE_PP_ON
    /\ pp_calls = <<AVR_PUMP_STATE_ON>>
    /\ pp_hist.on = 2
    /\ pp_in.cp_state = AVR_PUMP_STATE_OFF
    /\ pp_in.flow_rate = MaxFlow

\* C33 as stated: no call of avr_support_set_pp_pump in the loop carries the
\* value of the call before it, the command at startup included
C33_Claim ==
    [][IsPpTick
        => \A i \in 1..Len(pp_calls') :
              pp_calls'[i] # (IF i = 1 THEN pp_pump ELSE pp_calls'[i - 1])
      ]_vars

\* C34: a PP tick that starts in state ON or PAUSE leaves n as it is, or
\* decrements it when it goes from PAUSE to ON, and keeps the cycle count of
\* the sequence in progress, whatever cycle count the store holds at that
\* tick; a tick that goes from OFF to ON sets n to the store's cycle count
\* less one
C34_CycleCountSampledOnce ==
    [][IsPpTick
        => /\ (pp_state \in {STATE_PP_ON, STATE_PP_PAUSE})
                => /\ n' = IF /\ pp_state = STATE_PP_PAUSE
                              /\ pp_state' = STATE_PP_ON
                           THEN (n + CountMod - 1) % CountMod
                           ELSE n
                   /\ pp_hist'.N = pp_hist.N
           /\ (pp_state = STATE_PP_OFF /\ pp_state' = STATE_PP_ON)
                => /\ n' = (pp_in'.cycle_count + CountMod - 1) % CountMod
                   /\ pp_hist'.N = pp_in'.cycle_count
      ]_vars

C34_Witness ==
    /\ pp_pc = "delay"
    /\ pp_state = STATE_PP_PAUSE
    /\ pp_hist.N = 1
    /\ n = 0
    /\ pp_in.cycle_count = MaxCycleCount

\* the pages of the clockwise ring that starts at the home page
Ring ==
    {DISPLAY_PAGE_MAIN, DISPLAY_PAGE_SENSORS_TEMP, DISPLAY_PAGE_SENSORS_LIGHT,
     DISPLAY_PAGE_SENSORS_FLOW, DISPLAY_PAGE_POWER, DISPLAY_PAGE_SWITCHES,
     DISPLAY_PAGE_PUMP_STATUS, DISPLAY_PAGE_CP_CONTROL,
     DISPLAY_PAGE_PP_CONTROL, DISPLAY_PAGE_ALARM, DISPLAY_PAGE_WIFI_STATUS,
     DISPLAY_PAGE_MQTT_STATUS, DISPLAY_PAGE_RESOURCE_STATUS,
     DISPLAY_PAGE_AVR_STATUS}

\* C35 as stated: a clockwise rotation on a page of the ring followed by a
\* counter-clockwise rotation gives the page back, and so does a
\* counter-clockwise rotation followed by a clockwise one
C35_Claim ==
    (lookup.page \in Ring)
      => /\ (lookup.input = ROTARY_ENCODER_EVENT_CLOCKWISE)
              => NextPage(ROTARY_ENCODER_EVENT_COUNTER_CLOCKWISE, lookup.next)
                   = lookup.page
         /\ (lookup.input = ROTARY_ENCODER_EVENT_COUNTER_CLOCKWISE)
              => NextPage(ROTARY_ENCODER_EVENT_CLOCKWISE, lookup.next)
                   = lookup.page

\* C36: from the page of any lookup with a page id in range, clockwise
\* rotations alone lead to the home page within as many steps as there are
\* pages, and so do counter-clockwise rotations alone; and that page, unless
\* it is the blank page, is among the pages that inputs of the four kinds
\* lead to from the home page
C36_HomeReachable ==
    (lookup.page >= 0 /\ lookup.page < DISPLAY_PAGE_LAST)
      => /\ \E k \in 0..DISPLAY_PAGE_LAST :
              Rotate(ROTARY_ENCODER_EVENT_CLOCKWISE, lookup.page, k)
                = DISPLAY_PAGE_MAIN
         /\ \E k \in 0..DISPLAY_PAGE_LAST :
              Rotate(ROTARY_ENCODER_EVENT_COUNTER_CLOCKWISE, lookup.page, k)
                = DISPLAY_PAGE_MAIN
         /\ (lookup.page # DISPLAY_PAGE_BLANK)
              => lookup.page \in ReachableFrom({DISPLAY_PAGE_MAIN})

C36_Witness ==
    /\ lookup.page = DISPLAY_PAGE_SENSORS_TEMP_2
    /\ lookup.input = ROTARY_ENCODER_EVENT_CLOCKWISE
    /\ lookup.next = DISPLAY_PAGE_SENSORS_LIGHT
    /\ Rotate(ROTARY_ENCODER_EVENT_CLOCKWISE, lookup.page, 13)
         = DISPLAY_PAGE_MAIN

\* C31 as stated: whenever display_delete has deleted the display task, the
\* bus lock is not held by that task, so that another user of the bus that
\* asks for the lock can get it
C31_Claim == (d_pc = "deleted") => (i2c_lock # "display")

\* C38 as stated: whatever calls of display_init and display_delete are made,
\* at most one queue and one display task are ever created, a call of
\* display_init after the first changes nothing, and vTaskDelete is called
\* for the display task at most once
C38_Claim ==
    /\ [][(life'.inits > life.inits /\ init)
            => UNCHANGED <<init, task_handle, d_pc, queue>>]_vars
    /\ [](/\ life.queues <= 1
          /\ life.tasks <= 1
          /\ life.task_deletes + life.stale_deletes <= 1)

\* C37: a step of the display task that takes an input takes the event at the
\* head of the queue and removes that one event, leaving the others in their
\* order; it is made at the wait that follows a complete frame and leads to
\* the top of the loop, so that a frame lies between two events taken; no
\* other step of the display task changes the queue, and an event that
\* arrives is put behind those waiting
C37_OneEventPerCycle ==
    [][/\ IsInputStep
            => /\ d_input' = Head(queue)
               /\ queue' = Tail(queue)
               /\ Len(queue') = Len(queue) - 1
               /\ frame.prims = 2 * LCD_NUM_ROWS
               /\ frame'.prims = 0
               /\ d_pc' = "render"
       /\ (d_pc = "wait" /\ d_pc' # d_pc) => (queue = <<>> \/ IsInputStep)
       /\ (queue' # queue /\ ~IsInputStep)
            => /\ Len(queue') = Len(queue) + 1
               /\ SubSeq(queue', 1, Len(queue)) = queue
               /\ UNCHANGED <<d_pc, frame, current_page, d_input>>
      ]_vars

C37_Witness ==
    /\ d_pc = "render"
    /\ d_input = ROTARY_ENCODER_EVENT_CLOCKWISE
    /\ current_page = DISPLAY_PAGE_SENSORS_LIGHT
    /\ queue = <<BUTTON_EVENT_SHORT, ROTARY_ENCODER_EVENT_CLOCKWISE>>

====
